---- MODULE Spec2Model ----
(***************************************************************************)
(* Model of instrument_plugins/NI_DAQ.py: the NI_DAQ instrument wrapper    *)
(* and the module-level helper _get_channel.                               *)
(*                                                                         *)
(* Representation.                                                         *)
(*  - A Python string is a sequence of one-character strings, so that      *)
(*    split, replace and '%s/%s' formatting are computed character by      *)
(*    character.  Configuration option values ('Diff', 'DIFF', ...) are    *)
(*    only ever compared for equality and are TLA+ strings.                *)
(*  - A number that takes part in the mV <-> V scaling is an exact         *)
(*    rational [n |-> numerator, d |-> denominator > 0] in lowest terms.   *)
(*  - A numeric value handed across the hardware binding (a numpy array    *)
(*    or a float) is a sequence of rationals; a float is a sequence of     *)
(*    length one.                                                          *)
(*  - An optional string (None or a str) is [isNone |-> b, str |-> s].     *)
(*  - trace is the list of calls the last operation made to the host       *)
(*    framework (add_parameter, ...) and to the hardware binding nidaq     *)
(*    (read, write, read_counter, reset_device), in program order.         *)
(*                                                                         *)
(* Specifications.                                                         *)
(*  - Spec:     __init__ followed by any sequence of operations.           *)
(*  - SpecInit: __init__ alone, on every device within the bounds.         *)
(*  - SpecChan: _get_channel applied to every string within the bounds.    *)
(***************************************************************************)
EXTENDS Integers, Sequences, FiniteSets

\* ------------------------------------------------------------- bounds ----
MaxIn == 3
MaxOut == 2
MaxCtr == 1
MaxSamples == 4
MaxPre == 2
MaxLen == 4

\* -------------------------------------------------- program constants ----
Factor == 1000
DefaultPre == 2

\* ------------------------------------------------------------ numbers ----
Abs(x) == IF x < 0 THEN -x ELSE x

RECURSIVE GCD(_, _)
GCD(a, b) == IF b = 0 THEN a ELSE GCD(b, a % b)

\* the rational n/d (d # 0) in lowest terms with a positive denominator
Rat(n, d) ==
    LET g == GCD(Abs(n), Abs(d))
        s == IF d < 0 THEN -1 ELSE 1
    IN  [n |-> (s * n) \div g, d |-> (s * d) \div g]

\* values * 1000.0
ToMilli(values) == [i \in 1..Len(values) |-> Rat(values[i].n * Factor, values[i].d)]

\* val / 1000.0
\* fault variant: the /100 of the 1:10 divider named in the source comment
ToVoltsWrong(val) == [i \in 1..Len(val) |-> Rat(val[i].n, val[i].d * 100)]
ToVolts(val) == [i \in 1..Len(val) |-> Rat(val[i].n, val[i].d * Factor)]

\* ------------------------------------------------------------ strings ----
None == [isNone |-> TRUE, str |-> <<>>]
Str(s) == [isNone |-> FALSE, str |-> s]

Contains(s, c) == \E i \in 1..Len(s) : s[i] = c

\* s.split('/')
RECURSIVE Split(_)
Split(s) ==
    IF ~Contains(s, "/") THEN <<s>>
    ELSE LET k == CHOOSE i \in 1..Len(s) :
                     s[i] = "/" /\ \A j \in 1..(i - 1) : s[j] # "/"
         IN  <<SubSeq(s, 1, k - 1)>> \o Split(SubSeq(s, k + 1, Len(s)))

\* s.replace(a, b) for one-character a and b
Replace(s, a, b) == [i \in 1..Len(s) |-> IF s[i] = a THEN b ELSE s[i]]

\* '%s/%s' % (id, channel)
DevChan(id, channel) == id \o <<"/">> \o channel

\* fault variant: the device part instead of the channel part
_get_channel_first(devchan) ==
    IF ~Contains(devchan, "/") THEN devchan
    ELSE LET parts == Split(devchan)
         IN  IF Len(parts) # 2 THEN devchan ELSE parts[1]
_get_channel(devchan) ==
    IF ~Contains(devchan, "/") THEN devchan
    ELSE LET parts == Split(devchan)
         IN  IF Len(parts) # 2 THEN devchan ELSE parts[2]

\* the paired input of an output channel (source lines 153-155)
\* fault variant: the digit substitutions left out
PairedInputNoDigit(ch_out) == Replace(ch_out, "o", "i")
PairedInput(ch_out) ==
    Replace(Replace(Replace(ch_out, "o", "i"), "0", "6"), "1", "7")

\* ----------------------------------------------------------- hardware ----
\* the device id handed to the constructor
ID == <<"D">>

Digits == <<"0", "1", "2", "3", "4", "5", "6", "7", "8", "9">>

\* the i-th physical channel of a kind, as the binding names it: "D/ai0", ...
PhysName(prefix, i) == DevChan(ID, prefix \o <<Digits[i]>>)

\* what nidaq.get_physical_{input,output,counter}_channels(id) can report
PhysicalInputs(n) == [i \in 1..n |-> PhysName(<<"a", "i">>, i)]
PhysicalOutputs(n) == [i \in 1..n |-> PhysName(<<"a", "o">>, i)]
PhysicalCounters(n) == [i \in 1..n |-> PhysName(<<"c", "t", "r">>, i)]

\* what nidaq.read can return (volts)
VoltArrays == { <<Rat(3, 2)>>, <<Rat(-1, 1000), Rat(5, 1)>> }

\* what nidaq.read_counter can return
CounterValues == { <<Rat(7, 1)>> }

\* -------------------------------------------------- caller's arguments ----
option_list == {"Default", "RSE", "NRSE", "Diff", "PseudoDiff"}
SampleArgs == 3..MaxSamples
ConstructorSamples == 0..MaxSamples
PreArgs == 1..MaxPre
FreqArgs == {10000, 20000}
CountTimes == {Rat(1, 10), Rat(0, 1)}
OutputArgs == { <<Rat(250, 1)>>, <<Rat(-1, 2)>> }
SrcArgs == { <<>>, <<"P", "0">> }

\* -------------------------------------------------------------- state ----
VARIABLES
    phase,                  \* "new", "constructed" or "failed" (__init__ raised)
    phys_in, phys_out, phys_ctr,   \* the channel lists the device reports
    parameters,             \* the add_parameter calls made so far
    _chan_config, _count_time, _samples, _freq,
    _output,                \* the output cache: channel name -> value
    src_value,              \* framework-held value of each "<ctr>_src" parameter
    commanded,              \* history: channel -> last value given to do_set_output
    last,                   \* the last operation and its channel argument
    result,                 \* what the last operation returned or raised
    trace,                  \* the calls the last operation made, in order
    gc_in, gc_out           \* argument and result of a _get_channel call

vars == <<phase, phys_in, phys_out, phys_ctr, parameters, _chan_config,
          _count_time, _samples, _freq, _output,
          src_value, commanded, last, result, trace, gc_in, gc_out>>

hwvars == <<phys_in, phys_out, phys_ctr>>
gcvars == <<gc_in, gc_out>>

\* ------------------------------------------------------------- events ----
Ev(ev, name, kind, val, src) ==
    [ev |-> ev, name |-> name, kind |-> kind, val |-> val, src |-> src]

AddParameter(name, kind) == Ev("add_parameter", name, kind, <<>>, None)
HwRead(devchan, values) == Ev("read", devchan, "", values, None)
HwWrite(devchan, volts) == Ev("write", devchan, "", volts, None)
HwReadCounter(devchan, src, freq) == Ev("read_counter", devchan, "", <<freq>>, src)
HwReset(id) == Ev("reset_device", id, "", <<>>, None)
Raise(what) == Ev("raise", <<>>, what, <<>>, None)

Ok(val) == [status |-> "ok", val |-> val]
Error(what) == [status |-> what, val |-> <<>>]

N_chan_config == <<"c","h","a","n","_","c","o","n","f","i","g">>
N_count_time == <<"c","o","u","n","t","_","t","i","m","e">>
N_samples == <<"s","a","m","p","l","e","s">>
N_freq == <<"f","r","e","q">>
N_reset == <<"r","e","s","e","t">>
SrcSuffix == <<"_", "s", "r", "c">>

\* ------------------------------------------------- channel enumeration ----
\* fault variant: the comparison spelt as the option list spells it
_get_input_channels_diff(chan_config, physical_input_channels) ==
    IF chan_config = "Diff"
    THEN SubSeq(physical_input_channels, 1, Len(physical_input_channels) \div 2)
    ELSE physical_input_channels
_get_input_channels(chan_config, physical_input_channels) ==
    IF chan_config = "DIFF"
    THEN SubSeq(physical_input_channels, 1, Len(physical_input_channels) \div 2)
    ELSE physical_input_channels

_get_output_channels == phys_out
_get_counter_channels == phys_ctr

\* ----------------------------------------------------- do_get_input -------
\* the two checks of do_get_input; TRUE when it raises ValueError
\* fault variant: the second check off by one
InvalidTimingLoose(samples, pre_trigger_samples) ==
    \/ pre_trigger_samples < 2
    \/ samples < pre_trigger_samples + 1
InvalidTiming(samples, pre_trigger_samples) ==
    \/ pre_trigger_samples < 2
    \/ samples < pre_trigger_samples + 2

\* do_get_input(channel, pre_trigger_samples=pre) when the binding returns values
do_get_input(channel, samples, pre, values) ==
    IF InvalidTiming(samples, pre)
    THEN [result |-> Error("ValueError"), calls |-> <<Raise("ValueError")>>]
    ELSE [result |-> Ok(ToMilli(values)),
          calls  |-> <<HwRead(DevChan(ID, channel), values)>>]

\* ------------------------------------------------------ do_get_output -----
do_get_output(channel, cache) ==
    IF channel \in DOMAIN cache
    THEN [result |-> Ok(cache[channel]), calls |-> <<>>]
    ELSE [result |-> Error("KeyError"), calls |-> <<Raise("KeyError")>>]

\* ------------------------------------------------------ do_set_output -----
\* fault variant: the cache keeps the volts written, not the millivolts given
do_set_output_scaled(val, channel, cache) ==
    [cache |-> [k \in DOMAIN cache \cup {channel} |->
                    IF k = channel THEN ToVolts(val) ELSE cache[k]],
     calls |-> <<HwWrite(DevChan(ID, channel), ToVolts(val))>>]
do_set_output(val, channel, cache) ==
    [cache |-> [k \in DOMAIN cache \cup {channel} |->
                    IF k = channel THEN val ELSE cache[k]],
     calls |-> <<HwWrite(DevChan(ID, channel), ToVolts(val))>>]

\* ------------------------------------------------------ do_get_counter ----
\* the src argument do_get_counter hands to nidaq.read_counter
\* fault variant: no leading separator
CounterSrcNoSlash(src) ==
    IF ~src.isNone /\ src.str # <<>>
    THEN Str(ID \o <<"/">> \o src.str)
    ELSE src
CounterSrc(src) ==
    IF ~src.isNone /\ src.str # <<>>
    THEN Str(<<"/">> \o ID \o <<"/">> \o src.str)
    ELSE src

\* ------------------------------------------------------------ get_all -----
\* get_all(): the inputs through do_get_input with its defaults, then the
\* outputs through do_get_output; reads[i] is what the binding returns for
\* the i-th input
get_all(chan_config, samples, cache, reads) ==
    LET ins  == _get_input_channels(chan_config, phys_in)
        outs == _get_output_channels
        bad  == Len(ins) > 0 /\ InvalidTiming(samples, DefaultPre)
        gets == [i \in 1..Len(outs) |->
                    Ev("get_output", _get_channel(outs[i]), "", <<>>, None)]
        miss == \E i \in 1..Len(outs) :
                    do_get_output(_get_channel(outs[i]), cache).result.status # "ok"
    IN  [raised |-> IF bad THEN "ValueError" ELSE IF miss THEN "KeyError" ELSE "",
         calls  |-> <<Ev("get_all", <<>>, "", <<>>, None)>> \o
                    (IF bad THEN <<Raise("ValueError")>>
                     ELSE [i \in 1..Len(ins) |->
                              do_get_input(_get_channel(ins[i]), samples,
                                           DefaultPre, reads[i]).calls[1]]
                          \o (IF miss THEN <<Raise("KeyError")>> ELSE gets))]

\* -------------------------------------------------------- __init__ --------
ChannelParameters(chans, kind) ==
    [i \in 1..Len(chans) |-> AddParameter(_get_channel(chans[i]), kind)]

\* fault variant: the "_src" parameter not registered
CounterParametersNoSrc(ctrs) ==
    [j \in 1..Len(ctrs) |-> AddParameter(_get_channel(ctrs[j]), "do_get_counter")]
CounterParameters(ctrs) ==
    [j \in 1..(2 * Len(ctrs)) |->
        LET ch_ctr == _get_channel(ctrs[(j + 1) \div 2])
        IN  IF j % 2 = 1
            THEN AddParameter(ch_ctr, "do_get_counter")
            ELSE AddParameter(ch_ctr \o SrcSuffix, "do_set_counter_src")]

SetCall(name) == Ev("set", name, "", <<>>, None)

\* source lines 75-145: parameter registration and default configuration
Registration ==
    <<AddParameter(N_chan_config, "soft"), SetCall(N_chan_config)>>
    \o ChannelParameters(_get_input_channels("Diff", phys_in), "do_get_input")
    \o ChannelParameters(_get_output_channels, "do_set_output")
    \o CounterParameters(_get_counter_channels)
    \o <<AddParameter(N_count_time, "soft"), AddParameter(N_samples, "soft"),
         AddParameter(N_freq, "soft"),
         Ev("add_function", N_reset, "", <<>>, None),
         SetCall(N_count_time), SetCall(N_samples), SetCall(N_freq)>>

\* source lines 150-156: the output cache seeded from the paired inputs;
\* seedv[i] is what the binding returns for the i-th output's paired input
SeedFails(samples) ==
    Len(_get_output_channels) > 0 /\ InvalidTiming(samples, DefaultPre)

SeedCalls(samples, seedv) ==
    [i \in 1..Len(_get_output_channels) |->
        do_get_input(PairedInput(_get_channel(_get_output_channels[i])),
                     samples, DefaultPre, seedv[i]).calls[1]]

SeedCache(samples, seedv) ==
    LET outs == _get_output_channels
        keys == {_get_channel(outs[i]) : i \in 1..Len(outs)}
        at(k) == CHOOSE i \in 1..Len(outs) :
                    /\ _get_channel(outs[i]) = k
                    /\ \A j \in (i + 1)..Len(outs) : _get_channel(outs[j]) # k
    IN  [k \in keys |->
            do_get_input(PairedInput(k), samples, DefaultPre, seedv[at(k)]).result.val]

\* source lines 159-162
\* fault variant: the flag read the wrong way round
FinalStepInverted(reset, samples, cache, reads) ==
    IF ~reset
    THEN [raised |-> "", calls |-> <<HwReset(ID)>>]
    ELSE get_all("Diff", samples, cache, reads)
FinalStep(reset, samples, cache, reads) ==
    IF reset
    THEN [raised |-> "", calls |-> <<HwReset(ID)>>]
    ELSE get_all("Diff", samples, cache, reads)

EmptyMap == [k \in {} |-> <<>>]

Construct(samples, freq, reset, seedv, reads) ==
    /\ phase = "new"
    /\ LET final == FinalStep(reset, samples, SeedCache(samples, seedv), reads)
           seedfail == SeedFails(samples)
           failed == seedfail \/ final.raised # ""
       IN  /\ phase' = IF failed THEN "failed" ELSE "constructed"
           /\ parameters' = SelectSeq(Registration, LAMBDA e : e.ev = "add_parameter")
           /\ _chan_config' = "Diff"
           /\ _count_time' = Rat(1, 10)
           /\ _samples' = samples
           /\ _freq' = freq
           /\ _output' = IF seedfail THEN EmptyMap ELSE SeedCache(samples, seedv)
           /\ trace' = Registration \o
                       (IF seedfail THEN <<Raise("ValueError")>>
                        ELSE SeedCalls(samples, seedv) \o final.calls)
           /\ result' = IF seedfail THEN Error("ValueError")
                        ELSE IF final.raised # "" THEN Error(final.raised)
                        ELSE Ok(<<>>)
    /\ src_value' = [c \in {_get_channel(phys_ctr[i]) : i \in 1..Len(phys_ctr)} |-> None]
    /\ last' = [op |-> "__init__", channel |-> <<>>, flag |-> reset, pre |-> 0]
    /\ UNCHANGED <<hwvars, commanded, gcvars>>

\* the state before __init__ runs, on a device reporting i input, o output
\* and c counter channels
Boot(i, o, c) ==
    /\ phase = "new"
    /\ phys_in = PhysicalInputs(i)
    /\ phys_out = PhysicalOutputs(o)
    /\ phys_ctr = PhysicalCounters(c)
    /\ parameters = <<>>
    /\ _chan_config = ""
    /\ _count_time = Rat(0, 1)
    /\ _samples = 0
    /\ _freq = 0
    /\ _output = EmptyMap
    /\ src_value = EmptyMap
    /\ commanded = EmptyMap
    /\ last = [op |-> "none", channel |-> <<>>, flag |-> FALSE, pre |-> 0]
    /\ result = Ok(<<>>)
    /\ trace = <<>>
    /\ gc_in = <<>>
    /\ gc_out = None

\* every device within the bounds: construction is explored on all of them
AllDevices == (0..MaxIn) \X (0..MaxOut) \X (0..MaxCtr)

\* the devices on which sequences of operations are explored: none or all
\* channels of a single kind, and one channel of each kind together
OpDevices ==
    { <<0, 0, 0>>, <<MaxIn, 0, 0>>, <<0, MaxOut, 0>>, <<0, 0, MaxCtr>>, <<1, 1, 1>> }

InitAll == \E d \in AllDevices : Boot(d[1], d[2], d[3])

Init == \E d \in OpDevices : Boot(d[1], d[2], d[3])

\* ------------------------------------------- operations after __init__ ----
Names(chans) == {_get_channel(chans[i]) : i \in 1..Len(chans)}

Op(op, channel) == [op |-> op, channel |-> channel, flag |-> FALSE, pre |-> 0]

\* do_get_input called with any arguments; average, minvol, maxvol, trigger
\* and trig_slope are only forwarded to nidaq.read.  self._pre_trigger_samples
\* is assigned on entry and read by nothing but the two checks of the same
\* call: it is kept as last.pre rather than as a variable of its own.
DoGetInput(channel, average, minvol, maxvol, trigger, trig_slope, pre_trigger_samples, values) ==
    /\ phase = "constructed"
    /\ LET r == do_get_input(channel, _samples, pre_trigger_samples, values)
       IN  /\ result' = r.result
           /\ trace' = r.calls
    /\ last' = [Op("do_get_input", channel) EXCEPT !.pre = pre_trigger_samples]
    /\ UNCHANGED <<phase, hwvars, parameters, _chan_config, _count_time, _samples,
                   _freq, _output, src_value, commanded, gcvars>>

DoSetSamples(samples) ==
    /\ phase = "constructed"
    /\ _samples' = samples
    /\ result' = Ok(<<>>)
    /\ trace' = <<>>
    /\ last' = Op("do_set_samples", <<>>)
    /\ UNCHANGED <<phase, hwvars, parameters, _chan_config, _count_time, _freq, _output, src_value, commanded, gcvars>>

DoSetFreq(freq) ==
    /\ phase = "constructed"
    /\ _freq' = freq
    /\ result' = Ok(<<>>)
    /\ trace' = <<>>
    /\ last' = Op("do_set_freq", <<>>)
    /\ UNCHANGED <<phase, hwvars, parameters, _chan_config, _count_time, _samples, _output, src_value, commanded, gcvars>>

DoSetChanConfig(val) ==
    /\ phase = "constructed"
    /\ _chan_config' = val
    /\ result' = Ok(<<>>)
    /\ trace' = <<>>
    /\ last' = Op("do_set_chan_config", <<>>)
    /\ UNCHANGED <<phase, hwvars, parameters, _count_time, _samples, _freq, _output, src_value, commanded, gcvars>>

DoSetCountTime(val) ==
    /\ phase = "constructed"
    /\ _count_time' = val
    /\ result' = Ok(<<>>)
    /\ trace' = <<>>
    /\ last' = Op("do_set_count_time", <<>>)
    /\ UNCHANGED <<phase, hwvars, parameters, _chan_config, _samples, _freq, _output, src_value, commanded, gcvars>>

DoSetOutput(val, channel) ==
    /\ phase = "constructed"
    /\ LET r == do_set_output(val, channel, _output)
       IN  /\ _output' = r.cache
           /\ trace' = r.calls
    /\ commanded' = [k \in DOMAIN commanded \cup {channel} |->
                        IF k = channel THEN val ELSE commanded[k]]
    /\ result' = Ok(<<>>)
    /\ last' = Op("do_set_output", channel)
    /\ UNCHANGED <<phase, hwvars, parameters, _chan_config, _count_time, _samples,
                   _freq, src_value, gcvars>>

DoGetOutput(channel) ==
    /\ phase = "constructed"
    /\ LET r == do_get_output(channel, _output)
       IN  /\ result' = r.result
           /\ trace' = r.calls
    /\ last' = Op("do_get_output", channel)
    /\ UNCHANGED <<phase, hwvars, parameters, _chan_config, _count_time, _samples,
                   _freq, _output, src_value, commanded,
                   gcvars>>

\* set of a "<ctr>_src" parameter: do_set_counter_src returns True and the
\* framework keeps the value for later soft gets
DoSetCounterSrc(val, channel) ==
    /\ phase = "constructed"
    /\ src_value' = [src_value EXCEPT ![channel] = Str(val)]
    /\ result' = Ok(<<>>)
    /\ trace' = <<>>
    /\ last' = Op("do_set_counter_src", channel)
    /\ UNCHANGED <<phase, hwvars, parameters, _chan_config, _count_time, _samples,
                   _freq, _output, commanded, gcvars>>

DoGetCounter(channel, count) ==
    /\ phase = "constructed"
    /\ LET src == CounterSrc(src_value[channel])
       IN  IF _count_time.n = 0
           THEN /\ result' = Error("ZeroDivisionError")
                /\ trace' = <<Raise("ZeroDivisionError")>>
           ELSE /\ result' = Ok(count)
                /\ trace' = <<HwReadCounter(DevChan(ID, channel), src,
                                            Rat(_count_time.d, _count_time.n))>>
    /\ last' = Op("do_get_counter", channel)
    /\ UNCHANGED <<phase, hwvars, parameters, _chan_config, _count_time, _samples,
                   _freq, _output, src_value, commanded,
                   gcvars>>

Reset ==
    /\ phase = "constructed"
    /\ result' = Ok(<<>>)
    /\ trace' = <<HwReset(ID)>>
    /\ last' = Op("reset", <<>>)
    /\ UNCHANGED <<phase, hwvars, parameters, _chan_config, _count_time, _samples,
                   _freq, _output, src_value, commanded,
                   gcvars>>

GetAll(reads) ==
    /\ phase = "constructed"
    /\ LET r == get_all(_chan_config, _samples, _output, reads)
       IN  /\ result' = IF r.raised # "" THEN Error(r.raised) ELSE Ok(<<>>)
           /\ trace' = r.calls
    /\ last' = Op("get_all", <<>>)
    /\ UNCHANGED <<phase, hwvars, parameters, _chan_config, _count_time, _samples,
                   _freq, _output, src_value, commanded, gcvars>>

\* channel arguments a caller passes
InputChannelArgs == {<<"a", "i", "0">>, <<"a", "i", "6">>}

\* the keyword arguments of do_get_input: its defaults, and every one changed
ReadOptions ==
    { [average |-> TRUE, minvol |-> -10, maxvol |-> 10, trigger |-> FALSE,
       trig_slope |-> "POS"],
      [average |-> FALSE, minvol |-> -5, maxvol |-> 5, trigger |-> TRUE,
       trig_slope |-> "NEG"] }
OutputChannelArgs == Names(PhysicalOutputs(MaxOut + 1))

Next ==
    \/ \E samples \in ConstructorSamples, freq \in FreqArgs, reset \in BOOLEAN,
          seedv \in [1..Len(phys_out) -> VoltArrays],
          reads \in [1..Len(phys_in) -> VoltArrays] :
            Construct(samples, freq, reset, seedv, reads)
    \/ \E channel \in InputChannelArgs, o \in ReadOptions,
          pre \in PreArgs, values \in VoltArrays :
            DoGetInput(channel, o.average, o.minvol, o.maxvol, o.trigger,
                       o.trig_slope, pre, values)
    \/ \E samples \in SampleArgs : DoSetSamples(samples)
    \/ \E freq \in FreqArgs : DoSetFreq(freq)
    \/ \E val \in option_list : DoSetChanConfig(val)
    \/ \E val \in CountTimes : DoSetCountTime(val)
    \/ \E val \in OutputArgs, channel \in Names(phys_out) : DoSetOutput(val, channel)
    \/ \E channel \in OutputChannelArgs : DoGetOutput(channel)
    \/ \E val \in SrcArgs, channel \in Names(phys_ctr) : DoSetCounterSrc(val, channel)
    \/ \E channel \in Names(phys_ctr), count \in CounterValues :
            DoGetCounter(channel, count)
    \/ Reset
    \/ \E reads \in [1..Len(phys_in) -> VoltArrays] : GetAll(reads)

Spec == Init /\ [][Next]_vars

\* construction alone
NextInit ==
    \E samples \in ConstructorSamples, freq \in FreqArgs, reset \in BOOLEAN,
       seedv \in [1..Len(phys_out) -> VoltArrays],
       reads \in [1..Len(phys_in) -> VoltArrays] :
         Construct(samples, freq, reset, seedv, reads)

SpecInit == InitAll /\ [][NextInit]_vars

\* ------------------------------------------- _get_channel on its own ------
Alphabet == {"/", "a", "0"}
Strings == UNION {[1..n -> Alphabet] : n \in 0..MaxLen}

InitChan ==
    /\ phase = "new"
    /\ phys_in = <<>> /\ phys_out = <<>> /\ phys_ctr = <<>>
    /\ parameters = <<>>
    /\ _chan_config = ""
    /\ _count_time = Rat(0, 1)
    /\ _samples = 0
    /\ _freq = 0
    /\ _output = EmptyMap
    /\ src_value = EmptyMap
    /\ commanded = EmptyMap
    /\ last = [op |-> "none", channel |-> <<>>, flag |-> FALSE, pre |-> 0]
    /\ result = Ok(<<>>)
    /\ trace = <<>>
    /\ gc_in \in Strings
    /\ gc_out = None

CallGetChannel ==
    /\ gc_out.isNone
    /\ gc_out' = Str(_get_channel(gc_in))
    /\ UNCHANGED <<phase, hwvars, parameters, _chan_config, _count_time, _samples,
                   _freq, _output, src_value, commanded, last, result, trace,
                   gc_in>>

NextChan == CallGetChannel

SpecChan == InitChan /\ [][NextChan]_vars

\* ======================================================= properties ======
Count(seq, P(_)) == Cardinality({i \in 1..Len(seq) : P(seq[i])})
IsRead(e) == e.ev = "read"
IsHw(e) == e.ev \in {"read", "write", "read_counter", "reset_device"}

\* C1: do_get_input raises ValueError and issues no hardware read exactly when
\* pre_trigger_samples < 2 or samples < pre_trigger_samples + 2; in every
\* other case it raises nothing and issues exactly one hardware read.
C1_ValidationExact ==
    last.op = "do_get_input" =>
        IF last.pre < 2 \/ _samples < last.pre + 2
        THEN result.status = "ValueError" /\ Count(trace, IsHw) = 0
        ELSE result.status = "ok" /\ Count(trace, IsRead) = 1 /\ Len(trace) = 1

C1_Witness ==
    /\ last.op = "do_get_input"
    /\ last.pre >= 2
    /\ _samples < last.pre + 2
    /\ result.status = "ValueError"

\* C2: once do_set_output(V, c) has run, and whatever ran since except a
\* do_set_output on c, do_get_output(c) returns exactly V and touches no
\* hardware.
C2_ReadBackExact ==
    (last.op = "do_get_output" /\ last.channel \in DOMAIN commanded) =>
        /\ result = Ok(commanded[last.channel])
        /\ trace = <<>>

C2_Witness ==
    /\ last.op = "do_get_output"
    /\ last.channel \in DOMAIN commanded
    /\ \E c \in DOMAIN commanded : commanded[c] # commanded[last.channel]
    /\ result = Ok(commanded[last.channel])

\* C3 (as stated): the source handed to read_counter is the stored value
\* unchanged when that is None or empty, and "<device>/<source>" otherwise.
C3_SrcDeviceSlashSource ==
    (last.op = "do_get_counter" /\ result.status = "ok") =>
        LET src == src_value[last.channel]
        IN  trace[1].src = IF src.isNone \/ src.str = <<>>
                           THEN src
                           ELSE Str(ID \o <<"/">> \o src.str)

\* C3 (amended): the source handed to read_counter is the stored value
\* unchanged when that is None or empty, and "/<device>/<source>", with a
\* leading separator, otherwise.
C3_SrcSlashDeviceSlashSource ==
    (last.op = "do_get_counter" /\ result.status = "ok") =>
        LET src == src_value[last.channel]
        IN  /\ Len(trace) = 1
            /\ trace[1].ev = "read_counter"
            /\ trace[1].src = IF src.isNone \/ src.str = <<>>
                              THEN src
                              ELSE Str(<<"/", "D", "/">> \o src.str)

C3_Witness ==
    /\ last.op = "do_get_counter"
    /\ result.status = "ok"
    /\ src_value[last.channel] = Str(<<"P", "0">>)
    /\ trace[1].src = Str(<<"/", "D", "/", "P", "0">>)

\* C4: _get_channel never fails; with no '/' the result is the input, with
\* exactly one '/' it is what follows the '/', with more than one it is the
\* input.
C4_Normalise ==
    ~gc_out.isNone =>
        LET seps == {i \in 1..Len(gc_in) : gc_in[i] = "/"}
        IN  IF Cardinality(seps) = 1
            THEN \E k \in seps : gc_out.str = SubSeq(gc_in, k + 1, Len(gc_in))
            ELSE gc_out.str = gc_in

C4_Witness ==
    /\ ~gc_out.isNone
    /\ gc_in = <<"/", "a">>
    /\ gc_out.str = <<"a">>

\* the part of a physical channel name after "<device>/"
Suffix(devchan) == SubSeq(devchan, Len(ID) + 2, Len(devchan))

Registered(name, kind) ==
    Cardinality({i \in 1..Len(parameters) :
                    parameters[i].name = name /\ parameters[i].kind = kind})

OfKind(kinds) ==
    Cardinality({i \in 1..Len(parameters) : parameters[i].kind \in kinds})

\* C5: a successful construction registers exactly one parameter per input,
\* per output and per counter channel the device reports, named by the
\* channel's suffix, and exactly one "<counter>_src" parameter per counter.
C5_OneParameterPerChannel ==
    phase = "constructed" =>
        /\ \A i \in 1..Len(phys_in) : Registered(Suffix(phys_in[i]), "do_get_input") = 1
        /\ \A i \in 1..Len(phys_out) : Registered(Suffix(phys_out[i]), "do_set_output") = 1
        /\ \A i \in 1..Len(phys_ctr) :
              /\ Registered(Suffix(phys_ctr[i]), "do_get_counter") = 1
              /\ Registered(Suffix(phys_ctr[i]) \o <<"_", "s", "r", "c">>,
                            "do_set_counter_src") = 1
        /\ OfKind({"do_get_input", "do_set_output", "do_get_counter"})
              = Len(phys_in) + Len(phys_out) + Len(phys_ctr)
        /\ OfKind({"do_set_counter_src"}) = Len(phys_ctr)

C5_Witness ==
    /\ phase = "constructed"
    /\ last.op = "__init__"
    /\ Len(phys_in) = 3 /\ Len(phys_out) = 2 /\ Len(phys_ctr) = 1
    /\ OfKind({"do_get_input", "do_set_output", "do_get_counter"}) = 6
    /\ OfKind({"do_set_counter_src"}) = 1

\* the place in trace of the last step of __init__ (0 when it was not reached)
FinalAt ==
    IF \E i \in 1..Len(trace) : trace[i].ev \in {"reset_device", "get_all"}
    THEN CHOOSE i \in 1..Len(trace) :
            /\ trace[i].ev \in {"reset_device", "get_all"}
            /\ \A j \in 1..(i - 1) : trace[j].ev \notin {"reset_device", "get_all"}
    ELSE 0

\* registration, default configuration and cache seeding all lie before the
\* last step, and nothing of them after it
PreparedBefore(p) ==
    /\ Cardinality({i \in 1..(p - 1) : trace[i].ev = "add_parameter"})
          = Len(phys_in) + Len(phys_out) + 2 * Len(phys_ctr) + 4
    /\ Cardinality({i \in 1..(p - 1) : trace[i].ev = "set"}) = 4
    /\ Cardinality({i \in 1..(p - 1) : trace[i].ev = "read"}) = Len(phys_out)
    /\ \A i \in p..Len(trace) : trace[i].ev \notin {"add_parameter", "add_function", "set"}

TailCount(p, ev) == Cardinality({i \in (p + 1)..Len(trace) : trace[i].ev = ev})

\* C6 (as stated): when __init__ reaches its last step, reset=True resets the
\* device once and get_all reads nothing back; reset=False has get_all read
\* back every input and every output and does not reset; the step follows
\* registration, default configuration and seeding.
C6_FinalStepReadsAll ==
    (last.op = "__init__" /\ FinalAt > 0) =>
        /\ PreparedBefore(FinalAt)
        /\ IF last.flag
           THEN /\ Count(trace, LAMBDA e : e.ev = "reset_device") = 1
                /\ Count(trace, LAMBDA e : e.ev = "get_all") = 0
                /\ FinalAt = Len(trace)
           ELSE /\ Count(trace, LAMBDA e : e.ev = "reset_device") = 0
                /\ trace[FinalAt].ev = "get_all"
                /\ TailCount(FinalAt, "read") = Len(phys_in)
                /\ TailCount(FinalAt, "get_output") = Len(phys_out)

\* C6 (amended): as stated, except that with reset=False get_all reads back
\* every input and every output only if there is no input channel or the
\* sample count is at least 4; with an input channel and fewer than 4 samples
\* get_all is entered, its first input read raises ValueError, nothing is
\* read back and construction fails, still without a reset.
C6_FinalStepByFlag ==
    (last.op = "__init__" /\ FinalAt > 0) =>
        /\ PreparedBefore(FinalAt)
        /\ IF last.flag
           THEN /\ Count(trace, LAMBDA e : e.ev = "reset_device") = 1
                /\ Count(trace, LAMBDA e : e.ev = "get_all") = 0
                /\ FinalAt = Len(trace)
                /\ phase = "constructed"
           ELSE /\ Count(trace, LAMBDA e : e.ev = "reset_device") = 0
                /\ trace[FinalAt].ev = "get_all"
                /\ IF Len(phys_in) = 0 \/ _samples >= 4
                   THEN /\ TailCount(FinalAt, "read") = Len(phys_in)
                        /\ TailCount(FinalAt, "get_output") = Len(phys_out)
                        /\ phase = "constructed"
                   ELSE /\ TailCount(FinalAt, "read") = 0
                        /\ TailCount(FinalAt, "get_output") = 0
                        /\ result.status = "ValueError"
                        /\ phase = "failed"

C6_Witness ==
    /\ last.op = "__init__"
    /\ ~last.flag
    /\ phase = "constructed"
    /\ Len(phys_in) = 3 /\ Len(phys_out) = 2
    /\ TailCount(FinalAt, "read") = 3
    /\ TailCount(FinalAt, "get_output") = 2

\* C7: a validated do_get_input returns the array the hardware read gave,
\* times 1000 element by element; do_set_output writes val / 1000.
C7_Scaling ==
    /\ (last.op = "do_get_input" /\ result.status = "ok") =>
          /\ Len(result.val) = Len(trace[1].val)
          /\ \A i \in 1..Len(result.val) :
                result.val[i].n * trace[1].val[i].d
                   = 1000 * trace[1].val[i].n * result.val[i].d
    /\ last.op = "do_set_output" =>
          /\ trace[1].ev = "write"
          /\ Len(trace[1].val) = Len(commanded[last.channel])
          /\ \A i \in 1..Len(trace[1].val) :
                1000 * trace[1].val[i].n * commanded[last.channel][i].d
                   = commanded[last.channel][i].n * trace[1].val[i].d

C7_Witness ==
    /\ last.op = "do_get_input"
    /\ result.status = "ok"
    /\ trace[1].val = <<Rat(-1, 1000), Rat(5, 1)>>
    /\ result.val = <<Rat(-1, 1), Rat(5000, 1)>>

\* the substitution rule, one character at a time
PairChar(c) == IF c = "o" THEN "i" ELSE IF c = "0" THEN "6" ELSE IF c = "1" THEN "7" ELSE c
Paired(name) == [i \in 1..Len(name) |-> PairChar(name[i])]

SeedStart == Len(phys_in) + Len(phys_out) + 2 * Len(phys_ctr) + 10

C9_FullInputList ==
    phase = "constructed" =>
        /\ _chan_config \in {"Default", "RSE", "NRSE", "Diff", "PseudoDiff"}
        /\ _get_input_channels(_chan_config, phys_in) = phys_in
        /\ OfKind({"do_get_input"}) = Len(phys_in)
        /\ (last.op = "get_all" /\ result.status = "ok") =>
              Count(trace, IsRead) = Len(phys_in)

C9_Witness ==
    /\ phase = "constructed"
    /\ _chan_config = "PseudoDiff"
    /\ last.op = "get_all"
    /\ result.status = "ok"
    /\ Len(phys_in) = MaxIn
    /\ Count(trace, IsRead) = MaxIn

\* C10: constructing with fewer than 4 samples on a device with an output
\* channel fails with ValueError while seeding the cache: nothing is read,
\* reset or read back, yet every parameter is registered and the default
\* configuration set.
C10_SeedingFails ==
    (last.op = "__init__" /\ _samples < 4 /\ Len(phys_out) >= 1) =>
        /\ phase = "failed"
        /\ result.status = "ValueError"
        /\ Count(trace, IsHw) = 0
        /\ Count(trace, LAMBDA e : e.ev = "get_all") = 0
        /\ trace[Len(trace)].ev = "raise"
        /\ Count(trace, LAMBDA e : e.ev = "add_parameter")
              = Len(phys_in) + Len(phys_out) + 2 * Len(phys_ctr) + 4
        /\ Count(trace, LAMBDA e : e.ev = "set") = 4
        /\ _chan_config = "Diff" /\ _count_time = Rat(1, 10)

C10_Witness ==
    /\ last.op = "__init__"
    /\ _samples = 3
    /\ Len(phys_out) = 2
    /\ phase = "failed"
    /\ trace[Len(trace)].ev = "raise"

====
